---- MODULE Spec2Model ----
(***************************************************************************)
(* Model of scripts/python/ai-code-review.py: the module-level             *)
(* configuration, CodeReviewer.__init__ and CodeReviewer.run, as one       *)
(* sequential process.  Python str values are sequences of one-character   *)
(* strings (file names, environment values, diffs) or of longer literal    *)
(* chunks (messages, templates); concatenation is \o.                      *)
(***************************************************************************)
EXTENDS Integers, Sequences, FiniteSets, TLC

(* ------------------------------ bounds -------------------------------- *)

\* Longest list of changed files the hosting service reports.
MaxReported == 2

(* --------------------------- Python values ---------------------------- *)

\* Optional[T]: None, or a value.
None == [some |-> FALSE, v |-> <<>>]
Some(x) == [some |-> TRUE, v |-> x]

Digits == <<"0", "1", "2", "3", "4", "5", "6", "7", "8", "9">>
DigitSet == {Digits[i] : i \in 1..10}
DigitVal(c) == (CHOOSE i \in 1..10 : Digits[i] = c) - 1

RECURSIVE lstrip(_)
lstrip(s) == IF s # <<>> /\ Head(s) = " " THEN lstrip(Tail(s)) ELSE s

RECURSIVE rstrip(_)
rstrip(s) ==
  IF s # <<>> /\ s[Len(s)] = " " THEN rstrip(SubSeq(s, 1, Len(s) - 1)) ELSE s

\* str.strip()
strip(s) == rstrip(lstrip(s))

\* str.endswith(suffix)
endswith(s, suffix) ==
  /\ Len(suffix) <= Len(s)
  /\ SubSeq(s, Len(s) - Len(suffix) + 1, Len(s)) = suffix

\* sub occurs in s as a contiguous run (used by the properties below)
Contains(s, sub) ==
  \E i \in 0..(Len(s) - Len(sub)) : SubSeq(s, i + 1, i + Len(sub)) = sub

RECURSIVE DigitsValue(_)
DigitsValue(s) ==
  IF s = <<>> THEN 0
  ELSE 10 * DigitsValue(SubSeq(s, 1, Len(s) - 1)) + DigitVal(s[Len(s)])

AllDigits(s) == s # <<>> /\ \A i \in 1..Len(s) : s[i] \in DigitSet

Unsigned(s) == IF s # <<>> /\ Head(s) \in {"+", "-"} THEN Tail(s) ELSE s

\* int(s): surrounding whitespace and one sign are accepted; anything that
\* is not a run of decimal digits raises ValueError (ok = FALSE).
int(s) ==
  LET t == strip(s)
      d == Unsigned(t)
  IN IF AllDigits(d)
       THEN [ok |-> TRUE,
             v |-> IF Head(t) = "-" THEN 0 - DigitsValue(d) ELSE DigitsValue(d)]
       ELSE [ok |-> FALSE, v |-> 0]

\* float(s), in tenths: digits with at most one fractional digit.
float(s) ==
  LET d == Unsigned(strip(s))
      neg == strip(s) # <<>> /\ Head(strip(s)) = "-"
      dot == {i \in 1..Len(d) : d[i] = "."}
      tenths ==
        IF dot = {} THEN 10 * DigitsValue(d)
        ELSE LET i == CHOOSE j \in dot : TRUE
             IN 10 * DigitsValue(SubSeq(d, 1, i - 1))
                 + DigitsValue(SubSeq(d, i + 1, Len(d)))
      wellFormed ==
        \/ AllDigits(d)
        \/ /\ Cardinality(dot) = 1
           /\ LET i == CHOOSE j \in dot : TRUE
              IN /\ AllDigits(SubSeq(d, 1, i - 1))
                 /\ i = Len(d) - 1
                 /\ d[Len(d)] \in DigitSet
  IN IF wellFormed
       THEN [ok |-> TRUE, v |-> IF neg THEN 0 - tenths ELSE tenths]
       ELSE [ok |-> FALSE, v |-> 0]

RECURSIVE NatStr(_)
NatStr(n) == IF n < 10 THEN <<Digits[n + 1]>>
             ELSE NatStr(n \div 10) \o <<Digits[(n % 10) + 1]>>

\* str(n) for an int
str(n) == IF n < 0 THEN <<"-">> \o NatStr(0 - n) ELSE NatStr(n)

\* PEP 515 separators, "1e3", "nan" and the like are outside the inputs drawn.

(* ----------------------- the process environment ---------------------- *)

\* An environment variable is unset or set to a string; the model reveals
\* it at the os.getenv that reads it (each is read at most once).
Unread == [st |-> "unread", v |-> <<>>]
Unset == [st |-> "unset", v |-> <<>>]
Set(s) == [st |-> "set", v |-> s]

EnvNames ==
  {"OPENAI_MODEL", "OPENAI_MAX_TOKENS", "OPENAI_TEMPERATURE",
   "AI_REVIEW_MAX_FILE_SIZE", "AI_REVIEW_MAX_FILES", "OPENAI_API_KEY",
   "GITHUB_TOKEN", "PR_NUMBER", "REPO_NAME", "GITHUB_REPOSITORY"}

\* The values each variable is drawn from.
EnvValues(name) ==
  CASE name = "OPENAI_MODEL" -> {Unset, Set(<<"gpt-4">>)}
    [] name = "OPENAI_MAX_TOKENS" ->
         {Unset, Set(<<"a", "b", "c">>), Set(<<"5", "0">>)}
    [] name = "OPENAI_TEMPERATURE" ->
         {Unset, Set(<<"h", "o", "t">>), Set(<<"0", ".", "7">>), Set(<<"1">>)}
    [] name = "AI_REVIEW_MAX_FILE_SIZE" ->
         {Unset, Set(<<"b", "i", "g">>), Set(<<"3">>)}
    [] name = "AI_REVIEW_MAX_FILES" ->
         {Unset, Set(<<"a", "l", "l">>), Set(<<"-", "1">>), Set(<<"0">>),
          Set(<<"1">>)}
    [] name = "OPENAI_API_KEY" -> {Unset, Set(<<>>), Set(<<" ">>), Set(<<"sk">>)}
    [] name = "GITHUB_TOKEN" -> {Unset, Set(<<" ">>), Set(<<"ghp">>)}
    [] name = "PR_NUMBER" ->
         {Unset, Set(<<" ">>), Set(<<"a", "b", "c">>), Set(<<" ", "7", " ">>)}
    [] name = "REPO_NAME" -> {Unset, Set(<<>>), Set(<<" ">>), Set(<<"o/r">>)}
    [] name = "GITHUB_REPOSITORY" -> {Unset, Set(<<"o/ctx">>)}

\* os.getenv(name, default)
getenv(e, default) == IF e.st = "set" THEN e.v ELSE default

\* bool(os.getenv(name)): None and "" are falsy
Truthy(e) == e.st = "set" /\ e.v # <<>>

\* os.getenv(name) or ""
getenv_or_empty(e) == IF Truthy(e) THEN e.v ELSE <<>>

(* ------------------------------ state --------------------------------- *)

VARIABLES
  pc,                   \* the statement the process is at
  env,                  \* the environment as revealed so far
  MODEL, MAX_TOKENS, TEMPERATURE, MAX_FILE_SIZE, MAX_FILES_TO_REVIEW,
  self,                 \* the CodeReviewer's fields
  calls,                \* external calls attempted, per call
  printed,              \* messages written to standard output / error
  exitCode,             \* the process's exit status, once pc = "exited"
  reported,             \* the list of files pr.get_files() yielded
  files,                \* run(): files
  reviewable_files,     \* run(): reviewable_files
  prompt,               \* run(): prompt
  response,             \* what the completion request came back with
  review,               \* run(): review
  summary,              \* run(): summary
  details,              \* run(): details
  review_summary_md,    \* the file review-summary.md
  review_details_json,  \* the file review-details.json
  writes,               \* the files opened for writing, in order
  fn, arg, ret          \* a single call of one method: name, arguments, result

cfgVars == <<MODEL, MAX_TOKENS, TEMPERATURE, MAX_FILE_SIZE, MAX_FILES_TO_REVIEW>>
runVars ==
  <<reported, files, reviewable_files, prompt, response, review, summary, details>>
fsVars == <<review_summary_md, review_details_json, writes>>
fnVars == <<fn, arg, ret>>
vars == <<pc, env, cfgVars, self, calls, printed, exitCode, runVars, fsVars, fnVars>>

\* The defaults passed to os.getenv, and the value get_temperature falls
\* back to (1.0, in tenths).
DEFAULT_MODEL == <<"gpt-5-mini-2025-08-07">>
DEFAULT_MAX_TOKENS == <<"2", "0", "0", "0">>
DEFAULT_TEMPERATURE == <<"1">>
DEFAULT_MAX_FILE_SIZE == <<"1", "0", "0", "0", "0">>
DEFAULT_MAX_FILES == <<"2", "0">>
ONE_POINT_ZERO == 10

\* sys.exit(code), or the interpreter ending on an uncaught exception (1)
\* or at the end of the script (0).
Exit(code, msgs) ==
  /\ pc' = "exited"
  /\ exitCode' = code
  /\ printed' = printed \cup msgs

Goto(next, msgs) ==
  /\ pc' = next
  /\ printed' = printed \cup msgs
  /\ UNCHANGED exitCode

Read(name, e) == env' = [env EXCEPT ![name] = e]

(* ------------------ module level: lines 16 to 37 ---------------------- *)

LoadModel ==
  /\ pc = "load_model"
  /\ \E e \in EnvValues("OPENAI_MODEL") :
       /\ Read("OPENAI_MODEL", e)
       /\ MODEL' = getenv(e, DEFAULT_MODEL)
  /\ Goto("load_max_tokens", {})
  /\ UNCHANGED <<MAX_TOKENS, TEMPERATURE, MAX_FILE_SIZE, MAX_FILES_TO_REVIEW,
                 self, calls, runVars, fsVars, fnVars>>

\* MAX_TOKENS = int(os.getenv("OPENAI_MAX_TOKENS", "2000")): a ValueError is
\* not caught, the interpreter prints the traceback and exits with status 1.
LoadMaxTokens ==
  /\ pc = "load_max_tokens"
  /\ \E e \in EnvValues("OPENAI_MAX_TOKENS") :
       /\ Read("OPENAI_MAX_TOKENS", e)
       /\ LET r == int(getenv(e, DEFAULT_MAX_TOKENS))
          IN IF r.ok
               THEN MAX_TOKENS' = r.v /\ Goto("load_temperature", {})
               ELSE UNCHANGED MAX_TOKENS /\ Exit(1, {"Traceback: ValueError"})
  /\ UNCHANGED <<MODEL, TEMPERATURE, MAX_FILE_SIZE, MAX_FILES_TO_REVIEW,
                 self, calls, runVars, fsVars, fnVars>>

\* get_temperature(): the value and what it prints
get_temperature(e) ==
  LET r == float(strip(getenv(e, DEFAULT_TEMPERATURE)))
  IN IF ~r.ok
       THEN [v |-> ONE_POINT_ZERO, msgs |-> {"Invalid OPENAI_TEMPERATURE"}]
       ELSE IF r.v # ONE_POINT_ZERO
         THEN [v |-> ONE_POINT_ZERO, msgs |-> {"OPENAI_TEMPERATURE unsupported"}]
         ELSE [v |-> r.v, msgs |-> {}]

LoadTemperature ==
  /\ pc = "load_temperature"
  /\ \E e \in EnvValues("OPENAI_TEMPERATURE") :
       /\ Read("OPENAI_TEMPERATURE", e)
       /\ TEMPERATURE' = get_temperature(e).v
       /\ Goto("load_max_file_size", get_temperature(e).msgs)
  /\ UNCHANGED <<MODEL, MAX_TOKENS, MAX_FILE_SIZE, MAX_FILES_TO_REVIEW,
                 self, calls, runVars, fsVars, fnVars>>

LoadMaxFileSize ==
  /\ pc = "load_max_file_size"
  /\ \E e \in EnvValues("AI_REVIEW_MAX_FILE_SIZE") :
       /\ Read("AI_REVIEW_MAX_FILE_SIZE", e)
       /\ LET r == int(getenv(e, DEFAULT_MAX_FILE_SIZE))
          IN IF r.ok
               THEN MAX_FILE_SIZE' = r.v /\ Goto("load_max_files", {})
               ELSE UNCHANGED MAX_FILE_SIZE /\ Exit(1, {"Traceback: ValueError"})
  /\ UNCHANGED <<MODEL, MAX_TOKENS, TEMPERATURE, MAX_FILES_TO_REVIEW,
                 self, calls, runVars, fsVars, fnVars>>

LoadMaxFiles ==
  /\ pc = "load_max_files"
  /\ \E e \in EnvValues("AI_REVIEW_MAX_FILES") :
       /\ Read("AI_REVIEW_MAX_FILES", e)
       /\ LET r == int(getenv(e, DEFAULT_MAX_FILES))
          IN IF r.ok
               THEN MAX_FILES_TO_REVIEW' = r.v /\ Goto("init_api_key", {})
               ELSE UNCHANGED MAX_FILES_TO_REVIEW
                    /\ Exit(1, {"Traceback: ValueError"})
  /\ UNCHANGED <<MODEL, MAX_TOKENS, TEMPERATURE, MAX_FILE_SIZE,
                 self, calls, runVars, fsVars, fnVars>>

(* ---------------- CodeReviewer.__init__: lines 41 to 73 --------------- *)

InitApiKey ==
  /\ pc = "init_api_key"
  /\ \E e \in EnvValues("OPENAI_API_KEY") :
       /\ Read("OPENAI_API_KEY", e)
       /\ LET k == strip(getenv_or_empty(e))
          IN /\ self' = [self EXCEPT !.openai_api_key = k]
             /\ IF k = <<>>
                  THEN Exit(0, {"OPENAI_API_KEY not found"})
                  ELSE Goto("init_github_token", {})
  /\ UNCHANGED <<cfgVars, calls, runVars, fsVars, fnVars>>

InitGithubToken ==
  /\ pc = "init_github_token"
  /\ \E e \in EnvValues("GITHUB_TOKEN") :
       /\ Read("GITHUB_TOKEN", e)
       /\ LET k == strip(getenv_or_empty(e))
          IN /\ self' = [self EXCEPT !.github_token = k]
             /\ IF k = <<>>
                  THEN Exit(1, {"GITHUB_TOKEN not found"})
                  ELSE Goto("init_pr_number", {})
  /\ UNCHANGED <<cfgVars, calls, runVars, fsVars, fnVars>>

\* InitPrNumber with the ValueError of int() swallowed.
InitPrNumber_Unchecked ==
  /\ pc = "init_pr_number"
  /\ \E e \in EnvValues("PR_NUMBER") :
       /\ Read("PR_NUMBER", e)
       /\ LET pr_number_env == strip(getenv_or_empty(e))
              r == int(pr_number_env)
          IN IF pr_number_env = <<>>
               THEN UNCHANGED self /\ Exit(1, {"PR_NUMBER not provided"})
               ELSE /\ self' = [self EXCEPT !.pr_number = r.v]
                    /\ Goto("init_repo_name", {})
  /\ UNCHANGED <<cfgVars, calls, runVars, fsVars, fnVars>>

InitPrNumber ==
  /\ pc = "init_pr_number"
  /\ \E e \in EnvValues("PR_NUMBER") :
       /\ Read("PR_NUMBER", e)
       /\ LET pr_number_env == strip(getenv_or_empty(e))
              r == int(pr_number_env)
          IN IF pr_number_env = <<>>
               THEN UNCHANGED self /\ Exit(1, {"PR_NUMBER not provided"})
               ELSE IF r.ok
                 THEN /\ self' = [self EXCEPT !.pr_number = r.v]
                      /\ Goto("init_repo_name", {})
                 ELSE UNCHANGED self /\ Exit(1, {"Invalid PR_NUMBER value"})
  /\ UNCHANGED <<cfgVars, calls, runVars, fsVars, fnVars>>

\* (os.getenv("REPO_NAME") or os.getenv("GITHUB_REPOSITORY") or "").strip():
\* GITHUB_REPOSITORY is read only when REPO_NAME is unset or empty.
InitRepoName ==
  /\ pc = "init_repo_name"
  /\ \E e1 \in EnvValues("REPO_NAME") :
       \E e2 \in IF Truthy(e1) THEN {Unread} ELSE EnvValues("GITHUB_REPOSITORY") :
         /\ env' = [env EXCEPT !["REPO_NAME"] = e1, !["GITHUB_REPOSITORY"] = e2]
         /\ LET name == strip(IF Truthy(e1) THEN e1.v ELSE getenv_or_empty(e2))
            IN /\ self' = [self EXCEPT !.repo_name = name]
               /\ IF name = <<>>
                    THEN Exit(1, {"REPO_NAME not provided"})
                    ELSE Goto("init_get_repo", {})
  /\ UNCHANGED <<cfgVars, calls, runVars, fsVars, fnVars>>

\* The outcomes of a call to the hosting service.
PullTitles == {<<"Fix login">>}

\* self.repo = self.github_client.get_repo(self.repo_name); an exception here
\* is outside run()'s try: traceback, status 1.
InitGetRepo ==
  /\ pc = "init_get_repo"
  /\ calls' = [calls EXCEPT !.get_repo = @ + 1]
  /\ \E ok \in BOOLEAN :
       IF ok THEN Goto("init_get_pull", {})
       ELSE Exit(1, {"Traceback: GithubException"})
  /\ UNCHANGED <<env, cfgVars, self, runVars, fsVars, fnVars>>

InitGetPull ==
  /\ pc = "init_get_pull"
  /\ calls' = [calls EXCEPT !.get_pull = @ + 1]
  /\ \/ \E t \in PullTitles :
          /\ self' = [self EXCEPT !.pr_title = t]
          /\ Goto("run_get_changed_files", {"Reviewing PR"})
     \/ UNCHANGED self /\ Exit(1, {"Traceback: GithubException"})
  /\ UNCHANGED <<env, cfgVars, runVars, fsVars, fnVars>>

(* ------------------------- changed files ------------------------------ *)

File(name, status, adds, dels, patch) ==
  [filename |-> name, status |-> status, additions |-> adds,
   deletions |-> dels, patch |-> patch]

\* The files a pull request of the modelled repository can touch.
PullFiles ==
  {File(<<"a", ".", "p", "y">>, "modified", 1, 0, Some(<<"+", "x">>)),
   File(<<"b", ".", "m", "d">>, "added", 1, 0, Some(<<"+", "y">>)),
   File(<<"c", ".", "p", "y">>, "removed", 0, 2, None),
   File(<<"d", ".", "s", "h">>, "added", 4, 0, Some(<<"+", "p", "+", "q">>))}

\* Lists of distinct files, of at most n entries.
FileLists(n) ==
  UNION {{l \in [1..k -> PullFiles] : \A i, j \in 1..k : l[i] = l[j] => i = j}
         : k \in 0..n}

\* lst[:n]
SliceTo(lst, n) ==
  IF n >= 0 THEN SubSeq(lst, 1, IF n < Len(lst) THEN n ELSE Len(lst))
  ELSE SubSeq(lst, 1, Len(lst) + n)

\* get_changed_files(): the value returned for the list the service yields
get_changed_files(listed) == SliceTo(listed, MAX_FILES_TO_REVIEW)

reviewable_extensions ==
  <<<<".", "j", "a", "v", "a">>, <<".", "y", "m", "l">>,
    <<".", "y", "a", "m", "l">>, <<".", "x", "m", "l">>,
    <<".", "s", "q", "l">>,
    <<".", "p", "r", "o", "p", "e", "r", "t", "i", "e", "s">>,
    <<".", "j", "s", "o", "n">>, <<".", "s", "h">>, <<".", "p", "y">>>>

\* should_review_file testing "ext in filename" instead of endswith.
should_review_file_Contains(file) ==
  IF file.status = "removed" THEN FALSE
  ELSE \E i \in 1..Len(reviewable_extensions) :
         Contains(file.filename, reviewable_extensions[i])

should_review_file(file) ==
  IF file.status = "removed" THEN FALSE
  ELSE \E i \in 1..Len(reviewable_extensions) :
         endswith(file.filename, reviewable_extensions[i])

\* The Markdown code fence is written ~~~ here.
DIFF_OPEN == "**Diff:**\n~~~diff\n"
DIFF_CLOSE == "\n~~~\n"
TOO_LARGE == "*File too large for detailed review*\n"

\* bool(file.patch): None and "" are falsy
PatchTruthy(file) == file.patch.some /\ file.patch.v # <<>>

\* get_file_context comparing with <= instead of <.
get_file_context_Inclusive(file) ==
  LET context ==
        <<"### File: ">> \o file.filename \o <<"\n**Status**: ", file.status>>
          \o <<"\n**Changes**: +">> \o str(file.additions)
          \o <<" -">> \o str(file.deletions) \o <<"\n\n">>
  IN IF PatchTruthy(file) /\ Len(file.patch.v) <= MAX_FILE_SIZE
       THEN context \o <<DIFF_OPEN>> \o file.patch.v \o <<DIFF_CLOSE>>
       ELSE context \o <<TOO_LARGE>>

\* get_file_context(file), for the size threshold in force
get_file_context(file) ==
  LET context ==
        <<"### File: ">> \o file.filename \o <<"\n**Status**: ", file.status>>
          \o <<"\n**Changes**: +">> \o str(file.additions)
          \o <<" -">> \o str(file.deletions) \o <<"\n\n">>
  IN IF PatchTruthy(file) /\ Len(file.patch.v) < MAX_FILE_SIZE
       THEN context \o <<DIFF_OPEN>> \o file.patch.v \o <<DIFF_CLOSE>>
       ELSE context \o <<TOO_LARGE>>

\* "\n\n".join(get_file_context(f) for f in fs)
RECURSIVE files_context(_)
files_context(fs) ==
  IF fs = <<>> THEN <<>>
  ELSE IF Len(fs) = 1 THEN get_file_context(fs[1])
  ELSE get_file_context(fs[1]) \o <<"\n\n">> \o files_context(Tail(fs))

PROMPT_HEAD == "You are an expert software engineer ... **Changed Files:**\n"
PROMPT_TAIL == "\n\n**Instructions:** ... Provide your review in Markdown format.\n"

create_review_prompt(context) == <<PROMPT_HEAD>> \o context \o <<PROMPT_TAIL>>

(* ---------------------- CodeReviewer.run: 231 to 282 ------------------ *)

\* RunGetChangedFiles trying pr.get_files() a second time after a failure.
RunGetChangedFiles_Retry ==
  /\ pc = "run_get_changed_files"
  /\ calls' = [calls EXCEPT !.get_files = @ + 1]
  /\ \/ \E listed \in FileLists(MaxReported) :
          /\ reported' = listed
          /\ files' = get_changed_files(listed)
          /\ Goto("run_filter", {"Found changed file(s)"})
     \/ /\ UNCHANGED <<reported, files>>
        /\ IF calls.get_files = 0
             THEN Goto("run_get_changed_files", {})
             ELSE Exit(1, {"Error during review", "Traceback: GithubException"})
  /\ UNCHANGED <<env, cfgVars, self, reviewable_files, prompt, response, review,
                 summary, details, fsVars, fnVars>>

\* files = self.get_changed_files(): pr.get_files() raising is caught by
\* run()'s handler, which prints the error and calls sys.exit(1).
RunGetChangedFiles ==
  /\ pc = "run_get_changed_files"
  /\ calls' = [calls EXCEPT !.get_files = @ + 1]
  /\ \/ \E listed \in FileLists(MaxReported) :
          /\ reported' = listed
          /\ files' = get_changed_files(listed)
          /\ Goto("run_filter", {"Found changed file(s)"})
     \/ /\ UNCHANGED <<reported, files>>
        /\ Exit(1, {"Error during review", "Traceback: GithubException"})
  /\ UNCHANGED <<env, cfgVars, self, reviewable_files, prompt, response, review,
                 summary, details, fsVars, fnVars>>

\* RunFilter without the second early return.
RunFilter_NoSecondReturn ==
  /\ pc = "run_filter"
  /\ LET eligible == SelectSeq(files, should_review_file)
     IN IF files = <<>>
          THEN /\ UNCHANGED <<reviewable_files, prompt>>
               /\ Exit(0, {"No files to review"})
          ELSE /\ reviewable_files' = eligible
               /\ prompt' = create_review_prompt(files_context(eligible))
               /\ Goto("run_review", {"Reviewing file(s)"})
  /\ UNCHANGED <<env, cfgVars, self, calls, reported, files, response, review,
                 summary, details, fsVars, fnVars>>

\* Lines 237 to 256: the two early returns, the filter and the prompt.
RunFilter ==
  /\ pc = "run_filter"
  /\ LET eligible == SelectSeq(files, should_review_file)
     IN IF files = <<>>
          THEN /\ UNCHANGED <<reviewable_files, prompt>>
               /\ Exit(0, {"No files to review"})
          ELSE /\ reviewable_files' = eligible
               /\ IF eligible = <<>>
                    THEN UNCHANGED prompt /\ Exit(0, {"No reviewable files found"})
                    ELSE /\ prompt' = create_review_prompt(files_context(eligible))
                         /\ Goto("run_review", {"Reviewing file(s)"})
  /\ UNCHANGED <<env, cfgVars, self, calls, reported, files, response, review,
                 summary, details, fsVars, fnVars>>

\* What the completion service can answer: a message whose content is text
\* or null, or an exception raised inside the try block.
Completion(content) == [raised |-> FALSE, content |-> content, error |-> <<>>]
ApiError(e) == [raised |-> TRUE, content |-> None, error |-> e]
ApiOutcomes ==
  {Completion(Some(<<"LGTM">>)), Completion(None),
   ApiError(<<"Connection error.">>)}

FAILED_PREFIX == "Failed to complete AI review: "

\* review_with_openai letting the exception of the request through.
review_with_openai_Reraise(outcome) ==
  IF outcome.raised
    THEN [escaped |-> TRUE, review |-> None, msgs |-> {"OpenAI API error"}]
    ELSE [escaped |-> FALSE, review |-> outcome.content,
          msgs |-> {"Review completed"}]

\* review_with_openai(prompt): what it returns and prints for an outcome of
\* the request; escaped tells whether an exception leaves the method.
review_with_openai(outcome) ==
  IF outcome.raised
    THEN [escaped |-> FALSE,
          review |-> Some(<<FAILED_PREFIX>> \o outcome.error),
          msgs |-> {"OpenAI API error"}]
    ELSE [escaped |-> FALSE, review |-> outcome.content,
          msgs |-> {"Review completed"}]

RunReview ==
  /\ pc = "run_review"
  /\ calls' = [calls EXCEPT !.openai = @ + 1]
  /\ \E outcome \in ApiOutcomes :
       LET r == review_with_openai(outcome)
       IN /\ response' = outcome
          /\ IF r.escaped
               THEN UNCHANGED review /\ Exit(1, {"Error during review"})
               ELSE review' = r.review
                    /\ Goto("run_format", {"Sending to OpenAI"} \cup r.msgs)
  /\ UNCHANGED <<env, cfgVars, self, reported, files, reviewable_files, prompt,
                 summary, details, fsVars, fnVars>>

\* What datetime.utcnow().strftime(...) can return during a run.
Timestamps == {<<"2026-11-04 10:00:00 UTC">>, <<"2026-11-04 10:00:01 UTC">>}

\* f"{review}": None is rendered as the text None
Format(r) == IF r.some THEN r.v ELSE <<"None">>

format_review_summary(rev, files_count, timestamp) ==
  <<"## AI Code Review\n\n**Powered by:** OpenAI ">> \o MODEL
    \o <<"\n**Files reviewed:** ">> \o str(files_count)
    \o <<"\n**PR:** #">> \o str(self.pr_number) \o <<" - ">> \o self.pr_title
    \o <<"\n\n---\n\n">> \o Format(rev)
    \o <<"\n\n---\n\n<details> ... generated using OpenAI's ">> \o MODEL
    \o <<" model. ... </details>\n\n*Review generated at: ">> \o timestamp
    \o <<"*\n">>

RECURSIVE filenames(_)
filenames(fs) ==
  IF fs = <<>> THEN <<>> ELSE <<fs[1].filename>> \o filenames(Tail(fs))

\* review_details describing the fetched files instead of the reviewed ones.
review_details_AllFiles(timestamp) ==
  [pr_number |-> self.pr_number, pr_title |-> self.pr_title,
   files_reviewed |-> Len(reviewable_files), model |-> MODEL,
   timestamp |-> timestamp, files |-> filenames(files)]

review_details(timestamp) ==
  [pr_number |-> self.pr_number, pr_title |-> self.pr_title,
   files_reviewed |-> Len(reviewable_files), model |-> MODEL,
   timestamp |-> timestamp, files |-> filenames(reviewable_files)]

\* Lines 262 to 272.
RunFormat ==
  /\ pc = "run_format"
  /\ \E t1, t2 \in Timestamps :
       /\ summary' = format_review_summary(review, Len(reviewable_files), t1)
       /\ details' = review_details(t2)
  /\ Goto("save_summary", {})
  /\ UNCHANGED <<env, cfgVars, self, calls, reported, files, reviewable_files,
                 prompt, response, review, fsVars, fnVars>>

\* save_review, lines 222 and 223: open(..., 'w') either replaces the file's
\* content or raises OSError, which run()'s handler turns into sys.exit(1).
SaveSummary ==
  /\ pc = "save_summary"
  /\ \/ /\ review_summary_md' = Some(summary)
        /\ writes' = Append(writes, "review-summary.md")
        /\ Goto("save_details", {})
     \/ /\ UNCHANGED <<review_summary_md, writes>>
        /\ Exit(1, {"Error during review", "Traceback: OSError"})
  /\ UNCHANGED <<env, cfgVars, self, calls, runVars, review_details_json, fnVars>>

\* save_review, lines 226 to 229, and the end of run() and of the script.
SaveDetails ==
  /\ pc = "save_details"
  /\ \/ /\ review_details_json' = Some(details)
        /\ writes' = Append(writes, "review-details.json")
        /\ Exit(0, {"Review saved to files", "Code review completed"})
     \/ /\ UNCHANGED <<review_details_json, writes>>
        /\ Exit(1, {"Error during review", "Traceback: OSError"})
  /\ UNCHANGED <<env, cfgVars, self, calls, runVars, review_summary_md, fnVars>>

(* ------------------------- the whole script --------------------------- *)

PRIOR_SUMMARY == <<"(the summary of an earlier run)">>
PRIOR_DETAILS ==
  [pr_number |-> 6, pr_title |-> <<"Earlier">>, files_reviewed |-> 0,
   model |-> DEFAULT_MODEL, timestamp |-> <<"2026-11-03 09:00:00 UTC">>,
   files |-> <<>>]

\* Everything but the position, the two tunables the single calls read, and
\* the call itself.
Fresh ==
  /\ env = [n \in EnvNames |-> Unread]
  /\ MODEL = <<>>
  /\ MAX_TOKENS = 0
  /\ TEMPERATURE = 0
  /\ self = [openai_api_key |-> <<>>, github_token |-> <<>>, pr_number |-> 0,
             repo_name |-> <<>>, pr_title |-> <<>>]
  /\ calls = [get_repo |-> 0, get_pull |-> 0, get_files |-> 0, openai |-> 0]
  /\ printed = {}
  /\ exitCode = 0
  /\ reported = <<>>
  /\ files = <<>>
  /\ reviewable_files = <<>>
  /\ prompt = <<>>
  /\ response = Completion(None)
  /\ review = None
  /\ summary = <<>>
  /\ details = PRIOR_DETAILS
  /\ \E prior \in BOOLEAN :
       /\ review_summary_md = IF prior THEN Some(PRIOR_SUMMARY) ELSE None
       /\ review_details_json = IF prior THEN Some(PRIOR_DETAILS) ELSE None
  /\ writes = <<>>

Init ==
  /\ pc = "load_model"
  /\ Fresh
  /\ MAX_FILE_SIZE = 0
  /\ MAX_FILES_TO_REVIEW = 0
  /\ fn = "none"
  /\ arg = <<>>
  /\ ret = <<>>

Next ==
  \/ LoadModel
  \/ LoadMaxTokens
  \/ LoadTemperature
  \/ LoadMaxFileSize
  \/ LoadMaxFiles
  \/ InitApiKey
  \/ InitGithubToken
  \/ InitPrNumber
  \/ InitRepoName
  \/ InitGetRepo
  \/ InitGetPull
  \/ RunGetChangedFiles
  \/ RunFilter
  \/ RunReview
  \/ RunFormat
  \/ SaveSummary
  \/ SaveDetails

Spec == Init /\ [][Next]_vars

(* ------------------ single calls of the pure methods ------------------ *)

\* File names, statuses and diffs a changed file can have.
UnitNames ==
  {<<"m">> \o reviewable_extensions[i] : i \in 1..Len(reviewable_extensions)}
    \cup {<<"m", ".", "j", "s">>, <<"m", ".", "p", "y", "c">>,
          <<"m", ".", "p", "y", ".", "b", "a", "k">>, <<"m", ".", "P", "Y">>,
          <<"m", "p", "y">>, <<".", "p", "y">>, <<"s", "h">>,
          <<"M", "a", "k", "e", "f", "i", "l", "e">>,
          <<"x", ".", "y", "m", "l", ".", "j", "2">>}
UnitStatuses == {"added", "modified", "removed", "renamed"}
UnitPatches ==
  {None, Some(<<>>), Some(<<"+", "x">>), Some(<<"+", "x", "y">>),
   Some(<<"+", "p", "+", "q">>)}
UnitFiles ==
  {File(n, s, 1, 0, p) : n \in UnitNames, s \in UnitStatuses, p \in UnitPatches}

\* Values int() accepts for the two caps.
UnitCaps == {-2, -1, 0, 1, 2, 3, 20, 10000}

InitUnit ==
  /\ pc = "unit_call"
  /\ Fresh
  /\ MAX_FILE_SIZE \in UnitCaps
  /\ MAX_FILES_TO_REVIEW \in UnitCaps
  /\ fn \in {"should_review_file", "get_file_context", "get_changed_files"}
  /\ arg \in IF fn = "get_changed_files" THEN FileLists(MaxReported + 1)
             ELSE UnitFiles
  /\ ret = <<>>

Return(value) ==
  /\ ret' = value
  /\ pc' = "unit_returned"
  /\ UNCHANGED <<env, cfgVars, self, calls, printed, exitCode, runVars, fsVars,
                 fn, arg>>

CallShouldReviewFile ==
  /\ pc = "unit_call"
  /\ fn = "should_review_file"
  /\ Return(should_review_file(arg))

CallGetFileContext ==
  /\ pc = "unit_call"
  /\ fn = "get_file_context"
  /\ Return(get_file_context(arg))

CallGetChangedFiles ==
  /\ pc = "unit_call"
  /\ fn = "get_changed_files"
  /\ Return(get_changed_files(arg))

NextUnit == CallShouldReviewFile \/ CallGetFileContext \/ CallGetChangedFiles

SpecUnit == InitUnit /\ [][NextUnit]_vars

(* ============================ properties ============================== *)

\* The variable can have value e: it was read as e, or the run ended before
\* reading it, which leaves it unconstrained.
MayBe(name, e) ==
  \/ env[name] = e
  \/ env[name] = Unread /\ e \in EnvValues(name)

\* Absent or blank.
Blank(e) == e.st = "unset" \/ \A i \in 1..Len(e.v) : e.v[i] = " "
Given(name) == env[name].st = "set" /\ ~Blank(env[name])

\* The text of a decimal integer, with optional sign and surrounding blanks.
IsIntegerText(s) ==
  LET t == SelectSeq(s, LAMBDA c : c # " ")
      d == IF t # <<>> /\ t[1] \in {"+", "-"} THEN SubSeq(t, 2, Len(t)) ELSE t
  IN d # <<>> /\ \A i \in 1..Len(d) : d[i] \in DigitSet

NetworkCalls == calls.get_repo + calls.get_pull + calls.get_files + calls.openai

RepositoryGiven ==
  \/ Given("REPO_NAME")
  \/ /\ env["REPO_NAME"] \in {Unset, Set(<<>>)}
     /\ Given("GITHUB_REPOSITORY")

ConfigValidated ==
  /\ Given("OPENAI_API_KEY")
  /\ Given("GITHUB_TOKEN")
  /\ Given("PR_NUMBER") /\ IsIntegerText(env["PR_NUMBER"].v)
  /\ RepositoryGiven

\* A required value was read and found missing or invalid.
RequiredValueRejected ==
  \/ env["OPENAI_API_KEY"] # Unread /\ ~Given("OPENAI_API_KEY")
  \/ env["GITHUB_TOKEN"] # Unread /\ ~Given("GITHUB_TOKEN")
  \/ /\ env["PR_NUMBER"] # Unread
     /\ ~(Given("PR_NUMBER") /\ IsIntegerText(env["PR_NUMBER"].v))
  \/ env["REPO_NAME"] # Unread /\ ~RepositoryGiven

\* C1: no network call is attempted before OPENAI_API_KEY, GITHUB_TOKEN,
\* PR_NUMBER (an integer) and REPO_NAME or GITHUB_REPOSITORY have all been
\* validated, and a run that ends on a missing or invalid required value has
\* made no network call.
C1_FailFast ==
  /\ NetworkCalls > 0 => ConfigValidated
  /\ (pc = "exited" /\ RequiredValueRejected) => NetworkCalls = 0

C1_Witness ==
  /\ pc = "exited"
  /\ env["PR_NUMBER"] = Set(<<"a", "b", "c">>)
  /\ "Invalid PR_NUMBER value" \in printed
  /\ exitCode = 1
  /\ NetworkCalls = 0

\* C2: the process exits with code 0 when OPENAI_API_KEY is absent or blank,
\* and with code 1 when GITHUB_TOKEN is absent, PR_NUMBER is absent or not an
\* integer, or REPO_NAME and GITHUB_REPOSITORY are both absent, whatever the
\* other environment variables are.
C2_ExitCodes ==
  pc = "exited" =>
    /\ (\E e \in EnvValues("OPENAI_API_KEY") :
          Blank(e) /\ MayBe("OPENAI_API_KEY", e)) => exitCode = 0
    /\ (Given("OPENAI_API_KEY") /\ RequiredValueRejected) => exitCode = 1

\* The documented defaults of the numeric tunables (1.0 is 10 tenths).
DOC_MAX_TOKENS == 2000
DOC_TEMPERATURE == 10
DOC_MAX_FILE_SIZE == 10000
DOC_MAX_FILES == 20

NotNumeric(name) == env[name].st = "set" /\ ~IsIntegerText(env[name].v)

Crashed == pc = "exited" /\ "Traceback: ValueError" \in printed

\* C4: a numeric tunable set to a non-numeric string never terminates the
\* process: the tunable takes its documented default (2000, 1.0, 10000, 20)
\* and the run continues.
C4_NumericFallback ==
  /\ ~Crashed
  /\ NotNumeric("OPENAI_MAX_TOKENS") => MAX_TOKENS = DOC_MAX_TOKENS
  /\ (env["OPENAI_TEMPERATURE"] = Set(<<"h", "o", "t">>)) =>
       /\ TEMPERATURE = DOC_TEMPERATURE
       /\ "Invalid OPENAI_TEMPERATURE" \in printed
  /\ NotNumeric("AI_REVIEW_MAX_FILE_SIZE") => MAX_FILE_SIZE = DOC_MAX_FILE_SIZE
  /\ NotNumeric("AI_REVIEW_MAX_FILES") => MAX_FILES_TO_REVIEW = DOC_MAX_FILES

Fetched == "Found changed file(s)" \in printed

AtMost(n) == IF n < 0 THEN 0 ELSE n

\* C5: for every cap N the loader accepts and every reported list,
\* get_changed_files returns at most N files, the first of the reported list
\* in the reported order, and no more than N files reach the filter, the
\* prompt and the report.
C5_FileCap ==
  Fetched =>
    /\ Len(files) <= AtMost(MAX_FILES_TO_REVIEW)
    /\ files = SubSeq(reported, 1, Len(files))
    /\ Len(reviewable_files) <= AtMost(MAX_FILES_TO_REVIEW)

Wrote(name) == \E i \in 1..Len(writes) : writes[i] = name

BothWritten == writes = <<"review-summary.md", "review-details.json">>

\* What the claim C3 says of the inference call itself: whatever the request
\* came back with, the method returned (the run is not in the handler because
\* of it), an error became the failure placeholder carrying the error text,
\* and a successful answer became the review.
InferenceContained ==
  calls.openai > 0 =>
    /\ pc \in {"run_format", "save_summary", "save_details", "exited"}
    /\ response.raised =>
         /\ review.some
         /\ review.v = <<FAILED_PREFIX>> \o response.error
         /\ Contains(review.v, response.error)
    /\ ~response.raised => review = response.content
    /\ pc \in {"save_summary", "save_details", "exited"} =>
         Contains(summary, Format(review))

GetRepoDone ==
  {"init_get_pull", "run_get_changed_files", "run_filter", "run_review",
   "run_format", "save_summary", "save_details"}
GetPullDone == GetRepoDone \ {"init_get_pull"}
GetFilesDone == GetPullDone \ {"run_get_changed_files"}
CompletionDone == {"run_format", "save_summary", "save_details"}

\* C6: no external call is retried: get_repo, get_pull, get_files and the
\* completion request are each attempted once when the run reaches them, and
\* never a second time, also after a failure.
C6_NoRetry ==
  /\ \A c \in DOMAIN calls : calls[c] <= 1
  /\ pc \in GetRepoDone => calls.get_repo = 1
  /\ pc \in GetPullDone => calls.get_pull = 1
  /\ pc \in GetFilesDone => calls.get_files = 1
  /\ pc \in CompletionDone => calls.openai = 1
  /\ "Traceback: GithubException" \in printed => pc = "exited" /\ exitCode = 1
  /\ "Code review completed" \in printed =>
       \A c \in DOMAIN calls : calls[c] = 1

C6_Witness ==
  /\ pc = "exited"
  /\ exitCode = 1
  /\ "Error during review" \in printed
  /\ "Traceback: GithubException" \in printed
  /\ calls = [get_repo |-> 1, get_pull |-> 1, get_files |-> 1, openai |-> 0]

\* The allow-list of the specification.
AllowListed ==
  {<<".", "j", "a", "v", "a">>, <<".", "y", "m", "l">>,
   <<".", "y", "a", "m", "l">>, <<".", "x", "m", "l">>, <<".", "s", "q", "l">>,
   <<".", "p", "r", "o", "p", "e", "r", "t", "i", "e", "s">>,
   <<".", "j", "s", "o", "n">>, <<".", "s", "h">>, <<".", "p", "y">>}

HasAllowListedExtension(name) ==
  \E ext \in AllowListed :
    \E k \in 0..Len(name) : name = SubSeq(name, 1, k) \o ext

Eligible(file) ==
  file.status # "removed" /\ HasAllowListedExtension(file.filename)

Returned(name) == pc = "unit_returned" /\ fn = name

\* C7: should_review_file is true exactly when the status is not "removed"
\* and the path ends with an allow-listed extension; false for every removed
\* file and for every other extension.
C7_FileFilter ==
  Returned("should_review_file") =>
    /\ ret <=> Eligible(arg)
    /\ arg.status = "removed" => ~ret
    /\ ~HasAllowListedExtension(arg.filename) => ~ret

C7_Witness ==
  /\ Returned("should_review_file")
  /\ arg.status = "removed"
  /\ arg.filename = <<"m", ".", "p", "y">>
  /\ ~ret

\* C8: get_file_context puts the raw diff in the block only when the diff's
\* length is strictly below MAX_FILE_SIZE; a diff of length >= the threshold,
\* and a missing or empty diff, gives the elision notice and no diff text.
C8_DiffElision ==
  Returned("get_file_context") =>
    LET patch == arg.patch
        small == patch.some /\ patch.v # <<>> /\ Len(patch.v) < MAX_FILE_SIZE
    IN /\ Contains(ret, <<DIFF_OPEN>>) => small
       /\ small => Contains(ret, <<DIFF_OPEN>> \o patch.v \o <<DIFF_CLOSE>>)
       /\ ~small =>
            /\ ret[Len(ret)] = TOO_LARGE
            /\ ~Contains(ret, <<DIFF_OPEN>>)
            /\ patch.v # <<>> => ~Contains(ret, patch.v)

C8_Witness ==
  /\ Returned("get_file_context")
  /\ arg.patch.some
  /\ Len(arg.patch.v) = 3
  /\ MAX_FILE_SIZE = 3
  /\ ret[Len(ret)] = TOO_LARGE

EligiblePaths ==
  LET eligible == SelectSeq(files, Eligible)
  IN [i \in 1..Len(eligible) |-> eligible[i].filename]

\* C9: when the JSON detail record is written, its files field is the paths
\* of the eligible files of the capped list, in input order, files_reviewed
\* is their number and the number the Markdown summary shows, and the summary
\* contains the returned review text verbatim.
C9_Report ==
  Wrote("review-details.json") =>
    LET d == review_details_json.v
        md == review_summary_md.v
    IN /\ d.files = EligiblePaths
       /\ d.files_reviewed = Len(d.files)
       /\ Contains(md, <<"\n**Files reviewed:** ">> \o str(Len(d.files))
                         \o <<"\n**PR:** #">>)
       /\ review.some => Contains(md, review.v)
       /\ (~response.raised /\ response.content.some) =>
            Contains(md, response.content.v)

C9_Witness ==
  /\ Wrote("review-details.json")
  /\ Len(files) = 2
  /\ review_details_json.v.files = <<files[2].filename>>
  /\ review_details_json.v.files_reviewed = 1
  /\ Contains(review_summary_md.v, <<"LGTM">>)

NothingEligible == Fetched /\ SelectSeq(files, Eligible) = <<>>

DiskUntouched ==
  /\ writes = <<>>
  /\ review_summary_md \in {None, Some(PRIOR_SUMMARY)}
  /\ ~review_details_json.some \/ review_details_json.v = PRIOR_DETAILS

\* C10: with no file, or no file should_review_file accepts, run() returns
\* with status 0 without the inference call and without touching the two
\* output files; the call is attempted and the files written only with at
\* least one reviewable file, and review-summary.md is written first.
C10_NothingToReview ==
  /\ NothingEligible => (calls.openai = 0 /\ DiskUntouched)
  /\ (NothingEligible /\ pc = "exited") => exitCode = 0
  /\ calls.openai > 0 => (Fetched /\ ~NothingEligible)
  /\ writes # <<>> => (Fetched /\ ~NothingEligible /\ calls.openai = 1)
  /\ writes \in {<<>>, <<"review-summary.md">>,
                 <<"review-summary.md", "review-details.json">>}

C10_Witness ==
  /\ pc = "exited"
  /\ NothingEligible
  /\ files # <<>>
  /\ exitCode = 0
  /\ calls.openai = 0
  /\ review_summary_md = Some(PRIOR_SUMMARY)

====
